---------------------------- MODULE Spec2Model ----------------------------
(***************************************************************************)
(* A model of the siglent drivers: MessageResource (common.py), SPD3303X   *)
(* (power_supplies.py) and SSA3000X with its Trace and Marker handles      *)
(* (spectrum_analyzers.py).                                                *)
(*                                                                         *)
(* Every driver method is one action.  An action records the transport     *)
(* calls the method issued (calls), how the method ended (result) and what *)
(* it returned (ret).  A reply of the instrument is a sequence of lexemes: *)
(* a whitespace character (" ", "\n") or a word without whitespace, so     *)
(* that str.strip(), float(), int() and the Enum lookups are computed and  *)
(* not assumed.  Frequencies in Hz exceed 32 bits; they are kept as pairs   *)
(* <<MHz, Hz>> with 0 <= Hz < 10^6.  Sweep times are in microseconds.      *)
(* Python assertions are taken as enabled (no -O).                         *)
(***************************************************************************)
EXTENDS Integers, Sequences, FiniteSets, TLC

VARIABLES op, calls, result, ret, trace_h, marker_h, formReal

vars == <<op, calls, result, ret, trace_h, marker_h, formReal>>

(* ------------------------------ bounds -------------------------------- *)

\* Numeric inputs are drawn within Margin of each bound of a range check.
Margin == 1

\* The longest *OPC? reply, in characters.
MaxReplyLen == 2

(* ----------------------------- constants ------------------------------ *)

NUM_DATA_POINTS == 751

(* --------------------------- numbers (Hz) ----------------------------- *)

Mega == 1000 * 1000

\* The frequency m MHz + h Hz, normalised (h may be negative or >= 10^6).
Hz(m, h) == <<m + (h \div Mega), h % Mega>>

FreqLeq(a, b) == a[1] < b[1] \/ (a[1] = b[1] /\ a[2] <= b[2])

Around(b) == (b - Margin)..(b + Margin)

\* The ends of lo..hi and the Margin indices beyond each.
Edges(lo, hi) == ((lo - Margin)..lo) \cup (hi..(hi + Margin))

FreqAround(m, h) == {Hz(m, h + d) : d \in (0 - Margin)..Margin}

(* ------------------------- replies and parsing ------------------------ *)

WS == {" ", "\n"}

\* All replies of at most n lexemes over the alphabet A.
RECURSIVE SeqsUpTo(_, _)
SeqsUpTo(A, n) ==
    IF n = 0 THEN {<<>>}
    ELSE LET S == SeqsUpTo(A, n - 1)
         IN  S \cup {Append(s, a) : s \in {t \in S : Len(t) = n - 1}, a \in A}

\* A reply as the instrument sends a word: bare, or with its line ending.
Lines(W) == {<<w>> : w \in W} \cup {<<w, "\n">> : w \in W}

\* str.strip(): leading and trailing whitespace removed.
RECURSIVE LStrip(_)
LStrip(s) == IF s # <<>> /\ Head(s) \in WS THEN LStrip(Tail(s)) ELSE s

RECURSIVE RStrip(_)
RStrip(s) ==
    IF s # <<>> /\ s[Len(s)] \in WS THEN RStrip(SubSeq(s, 1, Len(s) - 1)) ELSE s

Strip(s) == RStrip(LStrip(s))

\* The numerals the instrument is taken to send, and their values.  A numeral
\* with a fractional part is one float() accepts and int() rejects.
IntNumerals == {"0", "1", "3", "4", "10", "30", "100", "300"}

FloatNumerals ==
    {"1000.0", "3000.0", "10000.0", "30000.0", "100000.0", "300000.0",
     "1000000.0"}

NumeralValue(w) ==
    CASE w = "0" -> 0 [] w = "1" -> 1 [] w = "3" -> 3 [] w = "4" -> 4
      [] w = "10" -> 10 [] w = "30" -> 30 [] w = "100" -> 100
      [] w = "300" -> 300
      [] w = "1000.0" -> 1000 [] w = "3000.0" -> 3000
      [] w = "10000.0" -> 10000 [] w = "30000.0" -> 30000
      [] w = "100000.0" -> 100000 [] w = "300000.0" -> 300000
      [] w = "1000000.0" -> 1000000

Parsed(v) == [ok |-> TRUE, v |-> v]

ParseError == [ok |-> FALSE, v |-> "None"]

\* float(reply): surrounding whitespace is ignored, the rest must be a numeral.
PyFloat(reply) ==
    LET s == Strip(reply)
    IN  IF Len(s) = 1 /\ s[1] \in IntNumerals \cup FloatNumerals
        THEN Parsed(NumeralValue(s[1]))
        ELSE ParseError

\* int(reply): as float(), but only integer numerals are accepted.
PyInt(reply) ==
    LET s == Strip(reply)
    IN  IF Len(s) = 1 /\ s[1] \in IntNumerals
        THEN Parsed(NumeralValue(s[1]))
        ELSE ParseError

\* The reply as it is, for a getter that returns the raw string.
PyRaw(reply) == Parsed(reply)

(* ------------------------------ transport ----------------------------- *)

Write(cmd, n, arg, ok) ==
    [kind |-> "write", cmd |-> cmd, n |-> n, arg |-> arg, ok |-> ok,
     reply |-> <<>>]

Query(cmd, n, out) ==
    [kind |-> "query", cmd |-> cmd, n |-> n, arg |-> "", ok |-> out.ok,
     reply |-> out.reply]

QueryBinary(cmd, n, ok) ==
    [kind |-> "query_binary", cmd |-> cmd, n |-> n, arg |-> "", ok |-> ok,
     reply |-> <<>>]

\* What a query can come to: a reply out of R, or a transport error.
QueryOutcomes(R) ==
    {[ok |-> TRUE, reply |-> r] : r \in R} \cup {[ok |-> FALSE, reply |-> <<>>]}

\* Whether, after the calls cs, a ":FORM REAL" write went through with no "*RST"
\* write going through after it (f: whether that held before cs).  A write
\* that ended in a transport error counts for neither.
RECURSIVE FormatAfter(_, _)
FormatAfter(f, cs) ==
    IF cs = <<>> THEN f
    ELSE LET c == Head(cs)
         IN  FormatAfter(
                 CASE c.kind = "write" /\ c.ok /\ c.cmd = ":FORM REAL" -> TRUE
                   [] c.kind = "write" /\ c.ok /\ c.cmd = "*RST" -> FALSE
                   [] OTHER -> f,
                 Tail(cs))

(* ------------------------- how a method ends -------------------------- *)

Call(dev, name, n, val) == [dev |-> dev, name |-> name, n |-> n, val |-> val]

\* The method o issued cs, ended with res and returned r.
Return(o, cs, res, r) ==
    /\ op' = o
    /\ calls' = cs
    /\ result' = res
    /\ ret' = r
    /\ formReal' = IF o.dev = "sa" THEN FormatAfter(formReal, cs) ELSE formReal

\* A getter: one query, whose reply the function parse (from the replies the
\* instrument may send to what the parser makes of each) turns into the value
\* returned.
PropertyGet(o, cmd, n, parse) ==
    \E out \in QueryOutcomes(DOMAIN parse) :
        LET c == Query(cmd, n, out)
        IN  CASE ~out.ok -> Return(o, <<c>>, "TransportError", "None")
              [] out.ok /\ parse[out.reply].ok ->
                     Return(o, <<c>>, "ok", parse[out.reply].v)
              [] out.ok /\ ~parse[out.reply].ok ->
                     Return(o, <<c>>, "ValueError", "None")

\* A method that is one write.
OneWrite(o, cmd, n, arg) ==
    \E ok \in BOOLEAN :
        Return(o, <<Write(cmd, n, arg, ok)>>,
               IF ok THEN "ok" ELSE "TransportError", "None")

\* A setter: the assertion, then one write.
PropertySet(o, valid, cmd, n, arg) ==
    IF valid THEN OneWrite(o, cmd, n, arg)
    ELSE Return(o, <<>>, "AssertionError", "None")

Devices == {"psu", "sa"}

Junk == {"abc"}

NumReplies == Lines({"0", "1", "1000.0"} \cup Junk)

(* ---------------------- MessageResource (common.py) ------------------- *)

identifier ==
    /\ \E dev \in Devices :
           PropertyGet(Call(dev, "identifier", 0, "None"), "*IDN?", 0,
                       [r \in Lines({"Siglent"}) |-> PyRaw(r)])
    /\ UNCHANGED <<trace_h, marker_h>>

reset ==
    /\ \E dev \in Devices : OneWrite(Call(dev, "reset", 0, "None"), "*RST", 0, "")
    /\ UNCHANGED <<trace_h, marker_h>>

clear ==
    /\ \E dev \in Devices : OneWrite(Call(dev, "clear", 0, "None"), "*CLS", 0, "")
    /\ UNCHANGED <<trace_h, marker_h>>

OpcReplies == SeqsUpTo({"1", "0", " ", "\n"}, MaxReplyLen)

\* OpcComplete without the strip(): the reply compared as it came.
OpcComplete_unstripped(reply) == reply = <<"1">>

\* The assertion of block_until_complete on the reply of *OPC?.
OpcComplete(reply) == Strip(reply) = <<"1">>

\* The calls and the end of block_until_complete, given what *OPC? came to.
BlockOutcome(out) ==
    [calls |-> <<Query("*OPC?", 0, out)>>,
     result |-> CASE ~out.ok -> "TransportError"
                  [] out.ok /\ OpcComplete(out.reply) -> "ok"
                  [] OTHER -> "AssertionError"]

block_until_complete ==
    /\ \E dev \in Devices, out \in QueryOutcomes(OpcReplies) :
           LET b == BlockOutcome(out)
           IN  Return(Call(dev, "block_until_complete", 0, "None"),
                      b.calls, b.result, "None")
    /\ UNCHANGED <<trace_h, marker_h>>

(* ---------------------- SPD3303X (power_supplies.py) ------------------ *)

Channel_valid(channel) == channel = 1 \/ channel = 2

\* __getitem__: the assertion, then "INST CH{channel}" sent with query().
SPD3303X_getitem ==
    /\ \E channel \in Edges(1, 2) :
           LET o == Call("psu", "__getitem__", channel, "None")
           IN  IF Channel_valid(channel)
               THEN \E out \in QueryOutcomes({<<>>} \cup Lines(Junk)) :
                        Return(o, <<Query("INST CH{n}", channel, out)>>,
                               IF out.ok THEN "ok" ELSE "TransportError",
                               IF out.ok THEN "self" ELSE "None")
               ELSE Return(o, <<>>, "AssertionError", "None")
    /\ UNCHANGED <<trace_h, marker_h>>

current ==
    /\ PropertyGet(Call("psu", "current", 0, "None"), "MEAS:CURR?", 0,
                   [r \in NumReplies |-> PyFloat(r)])
    /\ UNCHANGED <<trace_h, marker_h>>


(* ----------------- enumerations (spectrum_analyzers.py) --------------- *)

\* str(value) of a number of the given Python type.
PyStr(v, type) ==
    CHOOSE w \in (IF type = "int" THEN IntNumerals ELSE FloatNumerals) :
        NumeralValue(w) = v

\* An Enum class, as written: its names in order, each with its value.  Two
\* names with one value are one member, known by the first name (an alias).
Bandwidth ==
    << [name |-> "HZ_1", value |-> 1, type |-> "int"],
       [name |-> "HZ_3", value |-> 3, type |-> "int"],
       [name |-> "HZ_10", value |-> 10, type |-> "int"],
       [name |-> "HZ_30", value |-> 30, type |-> "int"],
       [name |-> "HZ_100", value |-> 100, type |-> "int"],
       [name |-> "HZ_300", value |-> 30, type |-> "int"],
       [name |-> "KHZ_1", value |-> 1000, type |-> "float"],
       [name |-> "KHZ_3", value |-> 3000, type |-> "float"],
       [name |-> "KHZ_10", value |-> 10000, type |-> "float"],
       [name |-> "KHZ_30", value |-> 30000, type |-> "float"],
       [name |-> "KHZ_100", value |-> 100000, type |-> "float"],
       [name |-> "KHZ_300", value |-> 300000, type |-> "float"],
       [name |-> "MHZ_1", value |-> 1000000, type |-> "float"] >>

AverageType ==
    << [name |-> "LOG_POWER", value |-> "LOGP"],
       [name |-> "POWER", value |-> "POW"],
       [name |-> "VOLTAGE", value |-> "VOLT"] >>

TraceMode ==
    << [name |-> "WRITE", value |-> "WRIT"],
       [name |-> "MAX_HOLD", value |-> "MAXH"],
       [name |-> "MIN_HOLD", value |-> "MINH"],
       [name |-> "VIEW", value |-> "VIEW"],
       [name |-> "AVERAGE", value |-> "AVER"] >>

DetectionMode ==
    << [name |-> "NEGATIVE", value |-> "NEG"],
       [name |-> "POSITIVE", value |-> "POS"],
       [name |-> "SAMPLE", value |-> "SAMP"],
       [name |-> "AVERAGE", value |-> "AVER"],
       [name |-> "NORMAL", value |-> "NORMAL"],
       [name |-> "QUASI", value |-> "QUAS"] >>

MarkerMode ==
    << [name |-> "POSITION", value |-> "POS"],
       [name |-> "DELTA", value |-> "DELT"],
       [name |-> "FIXED", value |-> "FIX"],
       [name |-> "OFF", value |-> "OFF"] >>

Names(E) == {E[i].name : i \in DOMAIN E}

Values(E) == {E[i].value : i \in DOMAIN E}

\* E.NAME.value
ValueOf(E, name) == E[CHOOSE i \in DOMAIN E : E[i].name = name].value

TypeOf(E, name) == E[CHOOSE i \in DOMAIN E : E[i].name = name].type

\* E(value): the member with that value, by its first name.
Lookup(E, value) ==
    IF value \in Values(E)
    THEN Parsed(E[CHOOSE i \in DOMAIN E :
                      /\ E[i].value = value
                      /\ \A j \in 1..(i - 1) : E[j].value # value].name)
    ELSE ParseError

\* E.NAME as an object: the member the name stands for.
Member(E, name) == Lookup(E, ValueOf(E, name)).v

\* E(reply.strip()), for an enumeration of strings.
EnumOfStripped(E, reply) ==
    LET s == Strip(reply)
    IN  IF Len(s) = 1 THEN Lookup(E, s[1]) ELSE ParseError

\* Bandwidth(float(reply))
BandwidthOfFloat(reply) ==
    LET f == PyFloat(reply)
    IN  IF f.ok THEN Lookup(Bandwidth, f.v) ELSE ParseError

\* The token f"{bw.value}" of a Bandwidth name.
BandwidthToken(bw) == PyStr(ValueOf(Bandwidth, bw), TypeOf(Bandwidth, bw))

BandwidthReplies ==
    {<<w>> : w \in {BandwidthToken(bw) : bw \in Names(Bandwidth)} \cup {"300"}}
        \cup Lines({"1", "1000.0"} \cup Junk)

EnumReplies(E) == Lines(Values(E) \cup Junk)

(* ------------------ SSA3000X (spectrum_analyzers.py) ------------------ *)

Sa(name, n, val) == Call("sa", name, n, val)

ref_level_get ==
    /\ PropertyGet(Sa("ref_level", 0, "None"), ":DISP:WIND:TRAC:Y:RLEV?", 0,
                   [r \in NumReplies |-> PyFloat(r)])
    /\ UNCHANGED <<trace_h, marker_h>>

ref_level_valid(level_dbm) == -100 <= level_dbm /\ level_dbm <= 30

ref_level_set ==
    /\ \E level_dbm \in Around(-100) \cup Around(30) :
           PropertySet(Sa("ref_level.setter", 0, level_dbm),
                       ref_level_valid(level_dbm),
                       ":DISP:WIND:TRAC:Y:RLEV {} DBM", 0, level_dbm)
    /\ UNCHANGED <<trace_h, marker_h>>

span_get ==
    /\ PropertyGet(Sa("span", 0, "None"), ":FREQ:SPAN?", 0,
                   [r \in NumReplies |-> PyFloat(r)])
    /\ UNCHANGED <<trace_h, marker_h>>

\* span_valid with the lower bound exclusive.
span_valid_exclusive(freq_hz) ==
    \/ /\ FreqLeq(Hz(0, 100), freq_hz) /\ freq_hz # Hz(0, 100)
       /\ FreqLeq(freq_hz, Hz(3200, 0))
    \/ freq_hz = Hz(0, 0)

span_valid(freq_hz) ==
    \/ FreqLeq(Hz(0, 100), freq_hz) /\ FreqLeq(freq_hz, Hz(3200, 0))
    \/ freq_hz = Hz(0, 0)

span_set ==
    /\ \E freq_hz \in FreqAround(0, 0) \cup FreqAround(0, 100)
                        \cup FreqAround(3200, 0) :
           PropertySet(Sa("span.setter", 0, freq_hz), span_valid(freq_hz),
                       ":FREQ:SPAN {} Hz", 0, freq_hz)
    /\ UNCHANGED <<trace_h, marker_h>>

freq_center_get ==
    /\ PropertyGet(Sa("freq_center", 0, "None"), ":FREQ:CENT?", 0,
                   [r \in NumReplies |-> PyFloat(r)])
    /\ UNCHANGED <<trace_h, marker_h>>

freq_center_valid(freq_hz) ==
    FreqLeq(Hz(0, 0), freq_hz) /\ FreqLeq(freq_hz, Hz(3200, 0))

freq_center_set ==
    /\ \E freq_hz \in FreqAround(0, 0) \cup FreqAround(3200, 0) :
           PropertySet(Sa("freq_center.setter", 0, freq_hz),
                       freq_center_valid(freq_hz), ":FREQ:CENT {} Hz", 0, freq_hz)
    /\ UNCHANGED <<trace_h, marker_h>>

freq_start_get ==
    /\ PropertyGet(Sa("freq_start", 0, "None"), ":FREQ:STAR?", 0,
                   [r \in NumReplies |-> PyFloat(r)])
    /\ UNCHANGED <<trace_h, marker_h>>

freq_stop_get ==
    /\ PropertyGet(Sa("freq_stop", 0, "None"), ":FREQ:STOP?", 0,
                   [r \in NumReplies |-> PyFloat(r)])
    /\ UNCHANGED <<trace_h, marker_h>>

freq_stop_valid(freq_hz) ==
    FreqLeq(Hz(0, 0), freq_hz) /\ FreqLeq(freq_hz, Hz(3200, 0))

freq_stop_set ==
    /\ \E freq_hz \in FreqAround(0, 0) \cup FreqAround(3200, 0) :
           PropertySet(Sa("freq_stop.setter", 0, freq_hz),
                       freq_stop_valid(freq_hz), ":FREQ:STOP {} Hz", 0, freq_hz)
    /\ UNCHANGED <<trace_h, marker_h>>

freq_step_get ==
    /\ PropertyGet(Sa("freq_step", 0, "None"), ":FREQ:CENT:STEP?", 0,
                   [r \in NumReplies |-> PyFloat(r)])
    /\ UNCHANGED <<trace_h, marker_h>>

attenuation_get ==
    /\ PropertyGet(Sa("attenuation", 0, "None"), ":POW:ATT?", 0,
                   [r \in NumReplies |-> PyFloat(r)])
    /\ UNCHANGED <<trace_h, marker_h>>

\* attenuation_valid with the upper bound one too high.
attenuation_valid_max52(db) == 0 <= db /\ db <= 52

attenuation_valid(db) == 0 <= db /\ db <= 51

attenuation_set ==
    /\ \E db \in Around(0) \cup Around(51) :
           PropertySet(Sa("attenuation.setter", 0, db), attenuation_valid(db),
                       ":POW:ATT {}", 0, db)
    /\ UNCHANGED <<trace_h, marker_h>>

\* query(...).strip() == "1"
StrippedIsOne(reply) == Parsed(Strip(reply) = <<"1">>)

preamp_get ==
    /\ PropertyGet(Sa("preamp", 0, "None"), "POW:GAIN?", 0,
                   [r \in Lines({"0", "1"} \cup Junk) |-> StrippedIsOne(r)])
    /\ UNCHANGED <<trace_h, marker_h>>

preamp_set ==
    /\ \E enabled \in BOOLEAN :
           OneWrite(Sa("preamp.setter", 0, enabled), ":POW:GAIN {}", 0,
                    IF enabled THEN "ON" ELSE "OFF")
    /\ UNCHANGED <<trace_h, marker_h>>

rbw_get ==
    /\ PropertyGet(Sa("rbw", 0, "None"), ":BWID?", 0,
                   [r \in BandwidthReplies |-> BandwidthOfFloat(r)])
    /\ UNCHANGED <<trace_h, marker_h>>

rbw_set ==
    /\ \E bw \in Names(Bandwidth) :
           OneWrite(Sa("rbw.setter", 0, bw), ":BWID {}", 0, BandwidthToken(bw))
    /\ UNCHANGED <<trace_h, marker_h>>

vbw_get ==
    /\ PropertyGet(Sa("vbw", 0, "None"), ":BWID:VID?", 0,
                   [r \in BandwidthReplies |-> BandwidthOfFloat(r)])
    /\ UNCHANGED <<trace_h, marker_h>>

vbw_set ==
    /\ \E bw \in Names(Bandwidth) :
           OneWrite(Sa("vbw.setter", 0, bw), ":BWID:VID {}", 0,
                    BandwidthToken(bw))
    /\ UNCHANGED <<trace_h, marker_h>>

AverageTypeOf(reply) == EnumOfStripped(AverageType, reply)

average_type_get ==
    /\ PropertyGet(Sa("average_type", 0, "None"), ":AVER:TYPE?", 0,
                   [r \in EnumReplies(AverageType) |-> AverageTypeOf(r)])
    /\ UNCHANGED <<trace_h, marker_h>>

average_type_set ==
    /\ \E type \in Names(AverageType) :
           OneWrite(Sa("average_type.setter", 0, type), ":AVER:TYPE {}", 0,
                    ValueOf(AverageType, type))
    /\ UNCHANGED <<trace_h, marker_h>>

sweep_time_get ==
    /\ PropertyGet(Sa("sweep_time", 0, "None"), ":SWE:TIME?", 0,
                   [r \in NumReplies |-> PyFloat(r)])
    /\ UNCHANGED <<trace_h, marker_h>>

\* 450e-6 <= time <= 1.5e3, with time in microseconds.
sweep_time_valid(time) == 450 <= time /\ time <= 1500 * Mega

sweep_time_set ==
    /\ \E time \in Around(450) \cup Around(1500 * Mega) :
           PropertySet(Sa("sweep_time.setter", 0, time), sweep_time_valid(time),
                       ":SWE:TIME {}s", 0, time)
    /\ UNCHANGED <<trace_h, marker_h>>

sweep_restart ==
    /\ OneWrite(Sa("sweep_restart", 0, "None"), ":INIT:REST", 0, "")
    /\ UNCHANGED <<trace_h, marker_h>>

\* trace_valid with a fifth trace let through.
trace_valid_upto5(trace) == 1 <= trace /\ trace <= 5

trace_valid(trace) == 1 <= trace /\ trace <= 4

\* trace(): the assertion, then Trace.__init__, which writes ":FORM REAL".
\* trace_h is the handle the caller holds: the Trace returned last.
trace ==
    /\ \E t \in Edges(1, 4) :
           LET o == Sa("trace", t, "None")
           IN  IF trace_valid(t)
               THEN \E ok \in BOOLEAN :
                        /\ Return(o, <<Write(":FORM REAL", 0, "", ok)>>,
                                  IF ok THEN "ok" ELSE "TransportError",
                                  IF ok THEN "Trace" ELSE "None")
                        /\ trace_h' = IF ok THEN t ELSE trace_h
               ELSE /\ Return(o, <<>>, "AssertionError", "None")
                    /\ trace_h' = trace_h
    /\ UNCHANGED marker_h

clear_markers ==
    /\ OneWrite(Sa("clear_markers", 0, "None"), ":CALC:MARK:AOFF", 0, "")
    /\ UNCHANGED <<trace_h, marker_h>>

marker_valid(marker) == 1 <= marker /\ marker <= 8

\* marker(): the assertion, then Marker.__init__, which issues nothing.
\* marker_h is the handle the caller holds: the Marker returned last.
marker ==
    /\ \E m \in Edges(1, 8) :
           LET o == Sa("marker", m, "None")
           IN  IF marker_valid(m)
               THEN Return(o, <<>>, "ok", "Marker") /\ marker_h' = m
               ELSE Return(o, <<>>, "AssertionError", "None")
                    /\ marker_h' = marker_h
    /\ UNCHANGED trace_h

(* ------------------------- SSA3000X.Trace ----------------------------- *)

TraceModeOf(reply) == EnumOfStripped(TraceMode, reply)

Trace_mode_get ==
    /\ trace_h # 0
    /\ PropertyGet(Sa("Trace.mode", trace_h, "None"), ":TRAC{n}:MODE?", trace_h,
                   [r \in EnumReplies(TraceMode) |-> TraceModeOf(r)])
    /\ UNCHANGED <<trace_h, marker_h>>

Trace_mode_set ==
    /\ trace_h # 0
    /\ \E mode \in Names(TraceMode) :
           OneWrite(Sa("Trace.mode.setter", trace_h, mode), ":TRAC{n}:MODE {}",
                    trace_h, ValueOf(TraceMode, mode))
    /\ UNCHANGED <<trace_h, marker_h>>

Trace_averages_get ==
    /\ trace_h # 0
    /\ PropertyGet(Sa("Trace.averages", trace_h, "None"), ":AVER:TRAC{n}:COUN?", trace_h,
                   [r \in NumReplies |-> PyInt(r)])
    /\ UNCHANGED <<trace_h, marker_h>>

averages_valid(n) == 1 <= n /\ n <= 999

Trace_averages_set ==
    /\ trace_h # 0
    /\ \E n \in Around(1) \cup Around(999) :
           PropertySet(Sa("Trace.averages.setter", trace_h, n), averages_valid(n),
                       ":AVER:TRAC{n}:COUN {}", trace_h, n)
    /\ UNCHANGED <<trace_h, marker_h>>

Trace_current_averages_get ==
    /\ trace_h # 0
    /\ PropertyGet(Sa("Trace.current_averages", trace_h, "None"), ":AVER:TRAC{n}?", trace_h,
                   [r \in NumReplies |-> PyInt(r)])
    /\ UNCHANGED <<trace_h, marker_h>>

Trace_average_restart ==
    /\ trace_h # 0
    /\ OneWrite(Sa("Trace.average_restart", trace_h, "None"), ":AVER:TRAC{n}:CLE",
                trace_h, "")
    /\ UNCHANGED <<trace_h, marker_h>>

DetectionModeOf(reply) == EnumOfStripped(DetectionMode, reply)

Trace_detection_mode_get ==
    /\ trace_h # 0
    /\ PropertyGet(Sa("Trace.detection_mode", trace_h, "None"), ":DET:TRAC{n}?", trace_h,
                   [r \in EnumReplies(DetectionMode) |-> DetectionModeOf(r)])
    /\ UNCHANGED <<trace_h, marker_h>>

\* The setter reads self.resource, an attribute a Trace does not have (it has
\* _resource): the lookup raises AttributeError before anything is sent.
Trace_detection_mode_set ==
    /\ trace_h # 0
    /\ \E mode \in Names(DetectionMode) :
           Return(Sa("Trace.detection_mode.setter", trace_h, mode), <<>>,
                  "AttributeError", "None")
    /\ UNCHANGED <<trace_h, marker_h>>

\* Trace.data without the block_until_complete() between restart and read.
Trace_data_unblocked ==
    /\ trace_h # 0
    /\ \E w \in BOOLEAN, b \in BOOLEAN :
           LET o == Sa("Trace.data", trace_h, "None")
               restart == <<Write(":INIT:REST", 0, "", w)>>
               read == <<QueryBinary("TRAC:DATA? {n}", trace_h, b)>>
           IN  IF ~w THEN Return(o, restart, "TransportError", "None")
               ELSE Return(o, restart \o read,
                           IF b THEN "ok" ELSE "TransportError",
                           IF b THEN NUM_DATA_POINTS ELSE "None")
    /\ UNCHANGED <<trace_h, marker_h>>

\* Trace.data: sweep_restart(), block_until_complete(), query_binary_values().
\* An exception of a step ends the method there.
Trace_data ==
    /\ trace_h # 0
    /\ LET o == Sa("Trace.data", trace_h, "None")
           read(b) == <<QueryBinary("TRAC:DATA? {n}", trace_h, b)>>
       IN  \E w \in BOOLEAN :
               LET restart == <<Write(":INIT:REST", 0, "", w)>>
               IN  IF ~w
                   THEN Return(o, restart, "TransportError", "None")
                   ELSE \E out \in QueryOutcomes(OpcReplies) :
                            LET block == BlockOutcome(out)
                            IN  IF block.result # "ok"
                                THEN Return(o, restart \o block.calls,
                                            block.result, "None")
                                ELSE \E b \in BOOLEAN :
                                         Return(o,
                                                restart \o block.calls \o read(b),
                                                IF b THEN "ok" ELSE "TransportError",
                                                IF b THEN NUM_DATA_POINTS ELSE "None")
    /\ UNCHANGED <<trace_h, marker_h>>

(* ------------------------- SSA3000X.Marker ---------------------------- *)

\* int(reply) == 1
IntIsOne(reply) ==
    LET i == PyInt(reply) IN IF i.ok THEN Parsed(i.v = 1) ELSE ParseError

Marker_enabled_get ==
    /\ marker_h # 0
    /\ PropertyGet(Sa("Marker.enabled", marker_h, "None"), ":CALC:MARK{n}:STAT?", marker_h,
                   [r \in NumReplies |-> IntIsOne(r)])
    /\ UNCHANGED <<trace_h, marker_h>>

Marker_enabled_set ==
    /\ marker_h # 0
    /\ \E enabled \in BOOLEAN :
           OneWrite(Sa("Marker.enabled.setter", marker_h, enabled),
                    ":CALC:MARK{n}:STAT {}", marker_h, IF enabled THEN 1 ELSE 0)
    /\ UNCHANGED <<trace_h, marker_h>>

MarkerModeOf(reply) == EnumOfStripped(MarkerMode, reply)

Marker_mode_get ==
    /\ marker_h # 0
    /\ PropertyGet(Sa("Marker.mode", marker_h, "None"), ":CALC:MARK{n}:MODE?", marker_h,
                   [r \in EnumReplies(MarkerMode) |-> MarkerModeOf(r)])
    /\ UNCHANGED <<trace_h, marker_h>>

Marker_mode_set ==
    /\ marker_h # 0
    /\ \E mode \in Names(MarkerMode) :
           OneWrite(Sa("Marker.mode.setter", marker_h, mode),
                    ":CALC:MARK{n}:MODE {}", marker_h, ValueOf(MarkerMode, mode))
    /\ UNCHANGED <<trace_h, marker_h>>

\* The class attribute trace is bound last by "@enabled.setter def trace": a
\* property with the getter of enabled and the setter written under it.  The
\* getter written for trace (":CALC:MARK{n}:TRAC?") is bound to nothing.
Marker_trace_get ==
    /\ marker_h # 0
    /\ PropertyGet(Sa("Marker.trace", marker_h, "None"), ":CALC:MARK{n}:STAT?", marker_h,
                   [r \in NumReplies |-> IntIsOne(r)])
    /\ UNCHANGED <<trace_h, marker_h>>

Marker_trace_set ==
    /\ marker_h # 0
    /\ \E t \in Edges(1, 4) :
           OneWrite(Sa("Marker.trace.setter", marker_h, t),
                    ":CALC:MARK{n}:TRAC {}", marker_h, t)
    /\ UNCHANGED <<trace_h, marker_h>>

Marker_peak ==
    /\ marker_h # 0
    /\ OneWrite(Sa("Marker.peak", marker_h, "None"), ":CALC:MARK{n}:MAX",
                marker_h, "")
    /\ UNCHANGED <<trace_h, marker_h>>

Marker_x_get ==
    /\ marker_h # 0
    /\ PropertyGet(Sa("Marker.x", marker_h, "None"), ":CALC:MARK{n}:X?", marker_h,
                   [r \in NumReplies |-> PyInt(r)])
    /\ UNCHANGED <<trace_h, marker_h>>

Marker_x_set ==
    /\ marker_h # 0
    /\ \E x \in Around(0) :
           OneWrite(Sa("Marker.x.setter", marker_h, x), ":CALC:MARK{n}:X {}",
                    marker_h, x)
    /\ UNCHANGED <<trace_h, marker_h>>

Marker_y_get ==
    /\ marker_h # 0
    /\ PropertyGet(Sa("Marker.y", marker_h, "None"), ":CALC:MARK{n}:Y?", marker_h,
                   [r \in NumReplies |-> PyInt(r)])
    /\ UNCHANGED <<trace_h, marker_h>>

(* ------------------------------ the system ---------------------------- *)

Init ==
    /\ op = Call("sa", "__init__", 0, "None")
    /\ calls = <<>>
    /\ result = "ok"
    /\ ret = "None"
    /\ trace_h = 0
    /\ marker_h = 0
    /\ formReal = FALSE

Next ==
    \/ identifier
    \/ reset
    \/ clear
    \/ block_until_complete
    \/ SPD3303X_getitem
    \/ current
    \/ ref_level_get
    \/ ref_level_set
    \/ span_get
    \/ span_set
    \/ freq_center_get
    \/ freq_center_set
    \/ freq_start_get
    \/ freq_stop_get
    \/ freq_stop_set
    \/ freq_step_get
    \/ attenuation_get
    \/ attenuation_set
    \/ preamp_get
    \/ preamp_set
    \/ rbw_get
    \/ rbw_set
    \/ vbw_get
    \/ vbw_set
    \/ average_type_get
    \/ average_type_set
    \/ sweep_time_get
    \/ sweep_time_set
    \/ sweep_restart
    \/ trace
    \/ clear_markers
    \/ marker
    \/ Trace_mode_get
    \/ Trace_mode_set
    \/ Trace_averages_get
    \/ Trace_averages_set
    \/ Trace_current_averages_get
    \/ Trace_average_restart
    \/ Trace_detection_mode_get
    \/ Trace_detection_mode_set
    \/ Trace_data
    \/ Marker_enabled_get
    \/ Marker_enabled_set
    \/ Marker_mode_get
    \/ Marker_mode_set
    \/ Marker_trace_get
    \/ Marker_trace_set
    \/ Marker_peak
    \/ Marker_x_get
    \/ Marker_x_set
    \/ Marker_y_get

Spec == Init /\ [][Next]_vars

(* ------------------------------ the claims ---------------------------- *)

NoIO == calls = <<>>

Issued(kind) == {i \in DOMAIN calls : calls[i].kind = kind}

\* A reply that is the character 1 and, around it, whitespace only.
OneInWhitespace(reply) ==
    \E i \in DOMAIN reply :
        /\ reply[i] = "1"
        /\ \A j \in DOMAIN reply \ {i} : reply[j] \in {" ", "\n"}

\* A frequency <<MHz, Hz>> that is 0 or within 100 Hz .. 3.2 GHz.
SpanDocumented(f) ==
    \/ f = <<0, 0>>
    \/ f[1] = 0 /\ f[2] >= 100
    \/ f[1] >= 1 /\ f[1] < 3200
    \/ f = <<3200, 0>>

\* A frequency <<MHz, Hz>> within 0 .. 3.2 GHz.
FreqDocumented(f) == (f[1] >= 0 /\ f[1] < 3200) \/ f = <<3200, 0>>

RangeSetters ==
    {"ref_level.setter", "span.setter", "freq_center.setter", "freq_stop.setter",
     "attenuation.setter", "sweep_time.setter", "Trace.averages.setter"}

\* The bound each range-bounded setter documents, on the value v.
Documented(name, v) ==
    CASE name = "ref_level.setter" -> v \in (0 - 100)..30
      [] name = "span.setter" -> SpanDocumented(v)
      [] name = "freq_center.setter" -> FreqDocumented(v)
      [] name = "freq_stop.setter" -> FreqDocumented(v)
      [] name = "attenuation.setter" -> v \in 0..51
      [] name = "sweep_time.setter" -> v >= 450 /\ v <= 1500000000
      [] name = "Trace.averages.setter" -> v \in 1..999

\* C1: a range-bounded setter (ref_level, span, freq_center, freq_stop,
\* attenuation, sweep_time, Trace.averages) called with a value outside its
\* documented bound ends with the assertion error, and the transport has seen
\* no write and no query.
C1_OutOfRangeNoIO ==
    (op.name \in RangeSetters /\ ~Documented(op.name, op.val))
        => (result = "AssertionError" /\ NoIO)

\* A sweep time of 449 us was refused.
C1_Witness ==
    /\ op.name = "sweep_time.setter"
    /\ op.val = 449
    /\ result = "AssertionError"

\* C2: SPD3303X[c] with c not 1 or 2, trace(t) with t outside 1..4 and
\* marker(m) with m outside 1..8 fail, and nothing reaches the transport: no
\* write (the ":FORM REAL" of Trace.__init__ neither) and no query.
C2_SelectorsRejectNoIO ==
    /\ (op.name = "__getitem__" /\ op.n \notin {1, 2})
           => (result = "AssertionError" /\ NoIO)
    /\ (op.name = "trace" /\ op.n \notin 1..4)
           => (result = "AssertionError" /\ NoIO)
    /\ (op.name = "marker" /\ op.n \notin 1..8)
           => (result = "AssertionError" /\ NoIO)

\* trace(5) was refused.
C2_Witness == op.name = "trace" /\ op.n = 5 /\ result = "AssertionError"

\* C3, as claimed: block_until_complete issues "*OPC?" and succeeds only when
\* the reply is exactly "1"; any other reply, "1\n" among them, fails.
C3_OnlyExactOne ==
    op.name = "block_until_complete"
        => /\ Len(calls) = 1 /\ calls[1].kind = "query" /\ calls[1].cmd = "*OPC?"
           /\ result = "ok" <=> (calls[1].ok /\ calls[1].reply = <<"1">>)

\* C3, amended: block_until_complete issues "*OPC?" and succeeds exactly when
\* the reply is "1" once its leading and trailing whitespace is removed: "0"
\* and "" fail, "1\n" succeeds.
C3_OneAfterStrip ==
    op.name = "block_until_complete"
        => /\ Len(calls) = 1 /\ calls[1].kind = "query" /\ calls[1].cmd = "*OPC?"
           /\ result = "ok" <=> (calls[1].ok /\ OneInWhitespace(calls[1].reply))

\* block_until_complete succeeded on the reply "1\n".
C3_Witness ==
    /\ op.name = "block_until_complete"
    /\ calls[1].reply = <<"1", "\n">>
    /\ result = "ok"

\* C4: Trace.data issues the write ":INIT:REST", then the query "*OPC?", then
\* the binary query "TRAC:DATA? n", in that order and nothing else; the binary
\* query is issued only once "*OPC?" has returned the completion reply; when
\* the write or the "*OPC?" step fails there is no "TRAC:DATA?" and the read
\* fails.
C4_DataOrder ==
    op.name = "Trace.data" =>
        /\ Len(calls) \in 1..3
        /\ calls[1].kind = "write" /\ calls[1].cmd = ":INIT:REST"
        /\ Len(calls) >= 2 =>
               /\ calls[1].ok
               /\ calls[2].kind = "query" /\ calls[2].cmd = "*OPC?"
        /\ Len(calls) = 3 =>
               /\ calls[2].ok /\ OneInWhitespace(calls[2].reply)
               /\ calls[3].kind = "query_binary"
               /\ calls[3].cmd = "TRAC:DATA? {n}" /\ calls[3].n = op.n
        /\ \A i \in DOMAIN calls : calls[i].kind = "query_binary" => i = 3
        /\ (\E i \in 1..2 : i \in DOMAIN calls /\ ~calls[i].ok)
               => (Issued("query_binary") = {} /\ result # "ok")
        /\ (Len(calls) >= 2 /\ ~OneInWhitespace(calls[2].reply))
               => (Issued("query_binary") = {} /\ result # "ok")
        /\ result = "ok" => (Len(calls) = 3 /\ calls[3].ok)

\* A trace was read: restart, completion, then the binary query.
C4_Witness ==
    /\ op.name = "Trace.data"
    /\ result = "ok"
    /\ Len(calls) = 3
    /\ calls[2].reply = <<"1">>

\* C6: the span setter accepts the value, and issues exactly one write
\* ":FREQ:SPAN {value} Hz", if and only if the value is 0 or within
\* 100 Hz .. 3.2 GHz, both ends included; otherwise it is rejected with
\* nothing issued.
C6_SpanBounds ==
    op.name = "span.setter" =>
        IF SpanDocumented(op.val)
        THEN /\ result # "AssertionError"
             /\ Len(calls) = 1
             /\ calls[1].kind = "write"
             /\ calls[1].cmd = ":FREQ:SPAN {} Hz"
             /\ calls[1].arg = op.val
        ELSE result = "AssertionError" /\ NoIO

\* The span 3200000001 Hz, one above the upper end, was refused.
C6_Witness ==
    /\ op.name = "span.setter"
    /\ op.val = <<3200, 1>>
    /\ result = "AssertionError"
    /\ NoIO

\* The enumerated settings: setter, getter, the write's command, the
\* enumeration.
EnumSettings ==
    { [set |-> "rbw.setter", get |-> "rbw", cmd |-> ":BWID {}",
       enum |-> "Bandwidth"],
      [set |-> "vbw.setter", get |-> "vbw", cmd |-> ":BWID:VID {}",
       enum |-> "Bandwidth"],
      [set |-> "average_type.setter", get |-> "average_type",
       cmd |-> ":AVER:TYPE {}", enum |-> "AverageType"],
      [set |-> "Trace.mode.setter", get |-> "Trace.mode",
       cmd |-> ":TRAC{n}:MODE {}", enum |-> "TraceMode"],
      [set |-> "Trace.detection_mode.setter", get |-> "Trace.detection_mode",
       cmd |-> ":DET:TRAC{n} {}", enum |-> "DetectionMode"],
      [set |-> "Marker.mode.setter", get |-> "Marker.mode",
       cmd |-> ":CALC:MARK{n}:MODE {}", enum |-> "MarkerMode"] }

SettingOf(setter) == CHOOSE e \in EnumSettings : e.set = setter

\* The bandwidth in Hz a name of Bandwidth stands for.
NominalHz(bw) ==
    CASE bw = "HZ_1" -> 1 [] bw = "HZ_3" -> 3 [] bw = "HZ_10" -> 10
      [] bw = "HZ_30" -> 30 [] bw = "HZ_100" -> 100 [] bw = "HZ_300" -> 300
      [] bw = "KHZ_1" -> 1000 [] bw = "KHZ_3" -> 3000 [] bw = "KHZ_10" -> 10000
      [] bw = "KHZ_30" -> 30000 [] bw = "KHZ_100" -> 100000
      [] bw = "KHZ_300" -> 300000 [] bw = "MHZ_1" -> 1000000

EnumNamed(enum) ==
    CASE enum = "Bandwidth" -> Bandwidth
      [] enum = "AverageType" -> AverageType
      [] enum = "TraceMode" -> TraceMode
      [] enum = "DetectionMode" -> DetectionMode
      [] enum = "MarkerMode" -> MarkerMode

\* Whether tok is the nominal token of the name V of the enumeration.
IsNominalToken(enum, V, tok) ==
    IF enum = "Bandwidth"
    THEN PyFloat(<<tok>>) = Parsed(NominalHz(V))
    ELSE tok = ValueOf(EnumNamed(enum), V)

\* The state after a setter of an enumerated setting, no call of which failed
\* in the transport: it succeeded with one write, of its own nominal token.
C5_NominalWritten ==
    (/\ op.name \in {e.set : e \in EnumSettings}
     /\ \A i \in DOMAIN calls : calls[i].ok)
        => LET e == SettingOf(op.name)
           IN  /\ result = "ok"
               /\ Len(calls) = 1
               /\ calls[1].kind = "write"
               /\ calls[1].cmd = e.cmd
               /\ calls[1].n = op.n
               /\ IsNominalToken(e.enum, op.val, calls[1].arg)

\* C5: for each enumerated setting (rbw, vbw, average_type, Trace.mode,
\* Trace.detection_mode, Marker.mode) and each name V of its enumeration:
\* setting V succeeds and writes V's own nominal token (300 for HZ_300), and a
\* read that follows, answered with the token written, returns V.
C5_EnumRoundTrip ==
    [][ /\ C5_NominalWritten'
        /\ (/\ op.name \in {e.set : e \in EnumSettings}
            /\ result = "ok"
            /\ op'.name = SettingOf(op.name).get
            /\ op'.n = op.n
            /\ calls'[1].ok
            /\ Strip(calls'[1].reply) = <<calls[1].arg>>)
               => /\ result' = "ok"
                  /\ ret' = Member(EnumNamed(SettingOf(op.name).enum), op.val) ]_vars

\* C7: SPD3303X[c], c in {1, 2}, sends "INST CH{c}" as a write: the transport
\* sees one write and no query, so no reply is waited for.
C7_ChannelIsWrite ==
    (op.name = "__getitem__" /\ op.n \in {1, 2})
        => /\ Cardinality(Issued("write")) = 1
           /\ Issued("query") = {}
           /\ calls[1].cmd = "INST CH{n}" /\ calls[1].n = op.n

Getters ==
    {"identifier", "current", "ref_level", "span", "freq_center", "freq_start",
     "freq_stop", "freq_step", "attenuation", "preamp", "rbw", "vbw",
     "average_type", "sweep_time", "Trace.mode", "Trace.averages",
     "Trace.current_averages", "Trace.detection_mode", "Marker.enabled",
     "Marker.mode", "Marker.trace", "Marker.x", "Marker.y"}

Setters ==
    {"ref_level.setter", "span.setter", "freq_center.setter", "freq_stop.setter",
     "attenuation.setter", "preamp.setter", "rbw.setter", "vbw.setter",
     "average_type.setter", "sweep_time.setter", "Trace.mode.setter",
     "Trace.averages.setter", "Trace.detection_mode.setter",
     "Marker.enabled.setter", "Marker.mode.setter", "Marker.trace.setter",
     "Marker.x.setter"}

\* C8: every property getter issues exactly one query and no write; every
\* property setter given a valid value issues exactly one write and no query.
C8_OneTransaction ==
    /\ op.name \in Getters
           => (Len(calls) = 1 /\ calls[1].kind = "query")
    /\ (/\ op.name \in Setters
        /\ op.name \in RangeSetters => Documented(op.name, op.val))
           => (Len(calls) = 1 /\ calls[1].kind = "write")

\* C9: reading marker(n).trace queries ":CALC:MARK{n}:TRAC?" and returns the
\* integer index of the marker's trace, never the ":CALC:MARK{n}:STAT?" flag;
\* assigning marker(n).trace writes ":CALC:MARK{n}:TRAC {t}", and assigning
\* marker(n).enabled writes ":CALC:MARK{n}:STAT {0|1}".
C9_MarkerTrace ==
    /\ op.name = "Marker.trace"
           => /\ calls[1].cmd = ":CALC:MARK{n}:TRAC?" /\ calls[1].n = op.n
              /\ result = "ok" => Parsed(ret) = PyInt(calls[1].reply)
    /\ op.name = "Marker.trace.setter"
           => /\ calls[1].cmd = ":CALC:MARK{n}:TRAC {}" /\ calls[1].n = op.n
              /\ calls[1].arg = op.val
    /\ op.name = "Marker.enabled.setter"
           => /\ calls[1].cmd = ":CALC:MARK{n}:STAT {}" /\ calls[1].n = op.n
              /\ calls[1].arg = (IF op.val THEN 1 ELSE 0)

\* C10: every "TRAC:DATA? n" query on the connection comes after a
\* ":FORM REAL" write with no "*RST" write between the two (formReal: the
\* writes counted are those that went through).
C10_RealBeforeData ==
    (\E i \in DOMAIN calls : calls[i].cmd = "TRAC:DATA? {n}") => formReal

=============================================================================
